---- MODULE Spec2Model ----
(***************************************************************************)
(* Model of the cortexm-threads scheduler (src/src/lib.rs): the global     *)
(* ThreadsState, the public API (init, create_thread_with_config, sleep),  *)
(* the SysTick handler and the scheduler get_next_thread_idx.              *)
(*                                                                         *)
(* One CPU.  Thread-mode code (the startup context "main" and the user     *)
(* threads) advances one statement at a time; the SysTick interrupt may    *)
(* be taken between any two statements while interrupts are not masked;    *)
(* a pended PendSV is taken before thread-mode code continues.             *)
(* 32-bit words that do not fit a TLC integer are written <<hi, lo>>       *)
(* (two 16-bit halves).                                                    *)
(***************************************************************************)
EXTENDS Integers, Sequences, FiniteSets, TLC

VARIABLES curr, next, inited, idx, add_idx, threads,
          global_ptr, primask, icsr, main_pc, frames, stack, ev,
          track, hist

vars == <<curr, next, inited, idx, add_idx, threads,
          global_ptr, primask, icsr, main_pc, frames, stack, ev,
          track, hist>>

(* main_pc is the position of the startup context; frames[c] is the        *)
(* position (at) and the argument (ticks, while still to be stored) of     *)
(* context c inside a sleep call, for the contexts that are inside one.    *)
(* track is "off", "events" or "history".  hist is the history of the     *)
(* sleep calls, recorded while track = "history": hist[i].req is the       *)
(* argument of slot i's latest sleep call and hist[i].invs the number of   *)
(* scheduler invocations since that call, counted up to req + 1.           *)
(* ev describes the step that led to the state: the operation, its result  *)
(* (the code a create call returned; for sleep 0 = returned at the test of *)
(* line 292, 1 = first store, 2 = second store), whether a tick invoked    *)
(* the scheduler, the value of idx before the step and the slots the       *)
(* scheduler woke (the last two unless track = "off").  stack is the       *)
(* buffer of the create_tcb call of the step.                              *)
table == <<add_idx, threads>>

----------------------------------------------------------------------------
(* Program constants *)

THREADS_LEN == 32

MIN_STACK == 32

IDLE_STACK_LEN == 64

IDLE_PRIORITY == 255

ERR_TOO_MANY_THREADS == 1

ERR_STACK_TOO_SMALL == 2

ERR_NO_CREATE_PRIV == 3

PENDSVSET == 268435456

(* Bounds of the model *)

MaxUser == 2

MaxPrio == 1

MaxSleep == 1

MaxTable == 3

CapVary == 1

MaxExtra == 2

----------------------------------------------------------------------------
(* Values *)

Slots == 0 .. (THREADS_LEN - 1)

MAIN == THREADS_LEN

Idle == "Idle"

Sleeping == "Sleeping"

OK == 0

Priorities == 0 .. MaxPrio

StackLens == {MIN_STACK - 1, MIN_STACK}

DEADBEEF == <<57005, 48879>>

HandlerFn == <<2048, 257>>

IdleFn == <<2048, 513>>

IcsrInit == {2048}

HighFn == <<65535, 65535>>

Handlers == {HandlerFn, IdleFn, HighFn}

FrameLens == (MIN_STACK - 1) .. (MIN_STACK + MaxExtra)

(* Address of threads[i]; 0 is the null value curr and next start with. *)
AddrOf(i) == i + 1

SlotOf(a) == a - 1

(* Address of the caller's stack buffer handed to the create call made     *)
(* while add_idx = a, and of init's local idle_stack.                      *)
StackBase(a) == 65536 + a * 4096

IdleStackBase == 32768

FreshStack(n) == [i \in 1 .. n |-> DEADBEEF]

ZeroTcb == [sp |-> 0, privileged |-> 0, priority |-> 0,
            status |-> Idle, sleep_ticks |-> 0]

NoEvent == [op |-> "none", res |-> 0, sched |-> FALSE, from |-> 0, woke |-> {}]

Min(a, b) == IF a < b THEN a ELSE b

----------------------------------------------------------------------------
(* create_tcb and insert_tcb *)

StackTooSmall_OffByOne(st) == Len(st) < MIN_STACK - 1

StackTooSmall(st) == Len(st) < MIN_STACK

(* The sixteen words, stack[idx - 15] .. stack[idx], lowest address first. *)
Frame(handler) ==
    << <<34952, 34952>>, <<39321, 39321>>, <<43690, 43690>>, <<48059, 48059>>,
       <<17476, 17476>>, <<21845, 21845>>, <<26214, 26214>>, <<30583, 30583>>,
       <<0, 0>>, <<4369, 4369>>, <<8738, 8738>>, <<13107, 13107>>,
       <<52428, 52428>>, <<65535, 65533>>, handler, <<256, 0>> >>

WriteFrame_Bottom(st, handler) ==
    [i \in 1 .. Len(st) |-> IF i <= 16 THEN Frame(handler)[i] ELSE st[i]]

WriteFrame(st, handler) ==
    [i \in 1 .. Len(st) |->
        IF i > Len(st) - 16 THEN Frame(handler)[i - (Len(st) - 16)] ELSE st[i]]

create_tcb(st, base, handler, priority, priviliged) ==
    IF StackTooSmall(st)
    THEN [ok |-> FALSE, err |-> ERR_STACK_TOO_SMALL, stack |-> st, tcb |-> ZeroTcb]
    ELSE [ok |-> TRUE, err |-> OK, stack |-> WriteFrame(st, handler),
          tcb |-> [sp |-> base + 4 * (Len(st) - 16),
                   priority |-> priority,
                   privileged |-> IF priviliged THEN 1 ELSE 0,
                   status |-> Idle,
                   sleep_ticks |-> 0]]

insert_tcb_First(th, i, tcb) == [th EXCEPT ![Min(i, 1)] = tcb]

insert_tcb(th, i, tcb) == [th EXCEPT ![i] = tcb]

----------------------------------------------------------------------------
(* get_next_thread_idx *)

NoUserThreads(a) == a <= 1

UpdateSleeping_WakeEarly(th, a) ==
    [i \in Slots |->
        IF i >= 1 /\ i < a /\ th[i].status = Sleeping
        THEN IF th[i].sleep_ticks > 1
             THEN [th[i] EXCEPT !.sleep_ticks = th[i].sleep_ticks - 1]
             ELSE [th[i] EXCEPT !.status = Idle, !.sleep_ticks = 0]
        ELSE th[i]]

UpdateSleeping(th, a) ==
    [i \in Slots |->
        IF i >= 1 /\ i < a /\ th[i].status = Sleeping
        THEN IF th[i].sleep_ticks > 0
             THEN [th[i] EXCEPT !.sleep_ticks = th[i].sleep_ticks - 1]
             ELSE [th[i] EXCEPT !.status = Idle]
        ELSE th[i]]

Eligible_WithIdle(th, a, i) == i < a /\ th[i].status # Sleeping

Eligible_PastEnd(th, a, i) == i > 0 /\ i <= a /\ th[i].status # Sleeping

Eligible(th, a, i) == i > 0 /\ i < a /\ th[i].status # Sleeping

Greater_Reversed(a, b) == a.priority < b.priority

Greater_OrEqual(a, b) == a.priority >= b.priority

Greater_Always(a, b) == a.priority >= 0 /\ b.priority >= 0

(* a.priority.cmp(&b.priority) = Greater *)
Greater(a, b) == a.priority > b.priority

(* Iterator::max_by: fold keeping the accumulator only when it compares    *)
(* Greater than the next element; -1 stands for None.                      *)
RECURSIVE max_by(_, _, _, _)
max_by(th, a, i, best) ==
    IF i >= THREADS_LEN THEN best
    ELSE max_by(th, a, i + 1,
                IF Eligible(th, a, i)
                THEN IF best # -1 /\ Greater(th[best], th[i]) THEN best ELSE i
                ELSE best)

get_next_thread_idx(th, a) ==
    IF NoUserThreads(a)
    THEN [threads |-> th, idx |-> 0]
    ELSE LET upd == UpdateSleeping(th, a)
             m   == max_by(upd, a, 0, -1)
         IN [threads |-> upd, idx |-> IF m = -1 THEN 0 ELSE m]

----------------------------------------------------------------------------
(* Execution contexts *)

Put(f, k, v) == [x \in DOMAIN f \cup {k} |-> IF x = k THEN v ELSE f[x]]

Drop(f, k) == [x \in DOMAIN f \ {k} |-> f[x]]

PendSVPending == (icsr \div PENDSVSET) % 2 = 1

(* Thread-mode code executes unless a pended PendSV can be taken first. *)
ThreadMode == ~(PendSVPending /\ ~primask)

Cur == IF curr = 0 THEN MAIN ELSE SlotOf(curr)

(* Context c executes: main until the first switch, then the thread curr   *)
(* points to; the idle thread only waits for events.                       *)
Runs(c) == ThreadMode /\ Cur = c /\ c # 0

At(c) == IF c \in DOMAIN frames THEN frames[c].at ELSE "run"

(* c is between API calls. *)
Free(c) == At(c) = "run" /\ (c = MAIN => main_pc = "boot")

Boot(t) ==
    /\ curr = 0
    /\ next = 0
    /\ inited = FALSE
    /\ idx = 0
    /\ add_idx = 1
    /\ threads = [i \in Slots |-> ZeroTcb]
    /\ global_ptr = 0
    /\ primask = FALSE
    /\ icsr \in IcsrInit
    /\ main_pc = "boot"
    /\ frames = << >>
    /\ stack = << >>
    /\ ev = NoEvent
    /\ track = t
    /\ hist = << >>

InitState == Boot("off")

InitWatch == Boot("events")

InitTrack == Boot("history")

----------------------------------------------------------------------------
(* SysTick (lines 243-266), entered with the interrupt mask set at 245 and *)
(* cleared at 264.                                                         *)

Woken(th, upd) == {i \in Slots : th[i].status = Sleeping /\ upd[i].status = Idle}

SetPendSV_Overwrite(v) == v - v + PENDSVSET

SetPendSV(v) == IF (v \div PENDSVSET) % 2 = 1 THEN v ELSE v + PENDSVSET

NoSwitchPending_Always(c, n) == c = c /\ n = n

NoSwitchPending(c, n) == c = n

Started_Always(ini) == ini \/ ~ini

(* if handler.inited (line 248) *)
Started(ini) == ini

SysTickBody ==
    /\ primask' = FALSE
    /\ IF Started(inited)
       THEN LET resched == NoSwitchPending(curr, next)
                r    == get_next_thread_idx(threads, add_idx)
                nidx == IF resched THEN r.idx ELSE idx
                nnext == IF resched THEN AddrOf(r.idx) ELSE next
            IN /\ idx' = nidx
               /\ next' = nnext
               /\ threads' = IF resched THEN r.threads ELSE threads
               /\ hist' = IF resched /\ ~NoUserThreads(add_idx)
                          THEN [i \in DOMAIN hist |->
                                  [hist[i] EXCEPT
                                     !.invs = Min(hist[i].invs + 1, hist[i].req + 1)]]
                          ELSE hist
               /\ icsr' = IF curr # nnext THEN SetPendSV(icsr) ELSE icsr
               /\ ev' = [op |-> "tick", res |-> 0, sched |-> resched,
                         from |-> IF track # "off" THEN idx ELSE 0,
                         woke |-> IF track # "off" /\ resched
                                  THEN Woken(threads, r.threads) ELSE {}]
       ELSE /\ UNCHANGED <<idx, next, threads, hist, icsr>>
            /\ ev' = [op |-> "tick", res |-> 0, sched |-> FALSE, from |-> 0, woke |-> {}]
    /\ stack' = << >>
    /\ UNCHANGED <<curr, inited, add_idx, global_ptr, track>>

(* The SysTick exception: taken whenever interrupts are not masked. *)
SysTick ==
    /\ ~primask
    /\ SysTickBody
    /\ UNCHANGED <<main_pc, frames>>

(* SysTick() called from the code of context c (main or a thread that     *)
(* yields): the same body, entered whatever the state of PRIMASK.         *)
tick(c) ==
    /\ Runs(c)
    /\ Free(c)
    /\ SysTickBody
    /\ UNCHANGED <<main_pc, frames>>

(* PendSV trampoline (external assembly): curr := next. *)
PendSV ==
    /\ PendSVPending
    /\ ~primask
    /\ curr' = next
    /\ icsr' = icsr - PENDSVSET
    /\ ev' = [op |-> "pendsv", res |-> 0, sched |-> FALSE, from |-> 0, woke |-> {}]
    /\ stack' = << >>
    /\ UNCHANGED <<next, inited, idx, add_idx, threads, global_ptr, primask,
                   main_pc, frames, track, hist>>

----------------------------------------------------------------------------
(* create_thread_with_config (lines 205-233) *)

TooManyThreads_OffByOne(a) == a > THREADS_LEN

TooManyThreads(a) == a >= THREADS_LEN

NoCreatePrivilege_AnyTime(ini, th, i) == th[i].privileged = 0

NoCreatePrivilege(ini, th, i) == ini /\ th[i].privileged = 0

CreateEvent(code) == [op |-> "create", res |-> code, sched |-> FALSE, from |-> 0, woke |-> {}]

create_thread_with_config(c, n, handler_fn, priority, priviliged) ==
    /\ Runs(c)
    /\ Free(c)
    /\ LET st == FreshStack(n)
           r  == create_tcb(st, StackBase(add_idx), handler_fn, priority, priviliged)
       IN IF TooManyThreads(add_idx)
          THEN /\ primask' = TRUE
               /\ ev' = CreateEvent(ERR_TOO_MANY_THREADS)
               /\ stack' = st
               /\ UNCHANGED <<threads, add_idx>>
          ELSE IF NoCreatePrivilege(inited, threads, idx)
          THEN /\ primask' = TRUE
               /\ ev' = CreateEvent(ERR_NO_CREATE_PRIV)
               /\ stack' = st
               /\ UNCHANGED <<threads, add_idx>>
          ELSE IF r.ok
          THEN /\ threads' = insert_tcb(threads, add_idx, r.tcb)
               /\ add_idx' = add_idx + 1
               /\ primask' = FALSE
               /\ ev' = CreateEvent(OK)
               /\ stack' = r.stack
          ELSE /\ primask' = FALSE
               /\ ev' = CreateEvent(r.err)
               /\ stack' = r.stack
               /\ UNCHANGED <<threads, add_idx>>
    /\ UNCHANGED <<curr, next, inited, idx, global_ptr, icsr, main_pc, frames,
                   track, hist>>

(* create_thread (lines 178-180) *)
create_thread(c, n) == create_thread_with_config(c, n, HandlerFn, 0, FALSE)

----------------------------------------------------------------------------
(* sleep (lines 290-298).  The two stores of lines 293-294 are plain       *)
(* (non-volatile) stores to a static mut that the SysTick handler also     *)
(* accesses; the build may emit them in either order.                      *)

SleepAllowed_Always(i) == i >= 0

SleepAllowed(i) == i > 0

SleepEvent(k) == [op |-> "sleep", res |-> k, sched |-> FALSE, from |-> 0, woke |-> {}]

sleep_entry(c, ticks, swapped) ==
    /\ Runs(c)
    /\ Free(c)
    /\ IF SleepAllowed(idx)
       THEN /\ IF ~swapped
               THEN /\ threads' = [threads EXCEPT ![idx].status = Sleeping]
                    /\ frames' = Put(frames, c, [at |-> "st_ticks", ticks |-> ticks])
               ELSE /\ threads' = [threads EXCEPT ![idx].sleep_ticks = ticks]
                    /\ frames' = Put(frames, c, [at |-> "st_status", ticks |-> -1])
            /\ hist' = IF track = "history"
                       THEN Put(hist, idx, [req |-> ticks, invs |-> 0])
                       ELSE hist
            /\ ev' = SleepEvent(1)
       ELSE /\ ev' = SleepEvent(0)
            /\ UNCHANGED <<threads, frames, hist>>
    /\ stack' = << >>
    /\ UNCHANGED <<curr, next, inited, idx, add_idx, global_ptr, primask, icsr,
                   main_pc, track>>

(* Entry in source order: the test of line 292 and the store of line 293. *)
sleep(c, ticks) == sleep_entry(c, ticks, FALSE)

(* Entry of a build that emits the store of line 294 first. *)
sleep_reordered(c, ticks) == SleepAllowed(idx) /\ sleep_entry(c, ticks, TRUE)

(* The second store. *)
sleep_store(c) ==
    /\ Runs(c)
    /\ At(c) \in {"st_ticks", "st_status"}
    /\ threads' = IF At(c) = "st_ticks"
                  THEN [threads EXCEPT ![idx].sleep_ticks = frames[c].ticks]
                  ELSE [threads EXCEPT ![idx].status = Sleeping]
    /\ frames' = Put(frames, c, [at |-> "st_tick", ticks |-> -1])
    /\ ev' = SleepEvent(2)
    /\ stack' = << >>
    /\ UNCHANGED <<curr, next, inited, idx, add_idx, global_ptr, primask, icsr,
                   main_pc, track, hist>>

(* The call of line 296. *)
sleep_tick(c) ==
    /\ Runs(c)
    /\ At(c) = "st_tick"
    /\ SysTickBody
    /\ frames' = Drop(frames, c)
    /\ UNCHANGED main_pc

----------------------------------------------------------------------------
(* init (lines 132-158) *)

InitEvent(k) == [op |-> "init", res |-> k, sched |-> FALSE, from |-> 0, woke |-> {}]

(* lines 134-137 *)
init_ptr ==
    /\ Runs(MAIN)
    /\ Free(MAIN)
    /\ global_ptr' = 1
    /\ primask' = FALSE
    /\ main_pc' = "init_tcb"
    /\ ev' = InitEvent(1)
    /\ stack' = << >>
    /\ UNCHANGED <<curr, next, inited, idx, add_idx, threads, icsr, frames,
                   track, hist>>

(* lines 138-151 *)
init_tcb ==
    /\ Runs(MAIN)
    /\ main_pc = "init_tcb"
    /\ LET r == create_tcb(FreshStack(IDLE_STACK_LEN), IdleStackBase, IdleFn,
                           IDLE_PRIORITY, FALSE)
       IN /\ r.ok
          /\ threads' = insert_tcb(threads, 0, r.tcb)
          /\ stack' = r.stack
    /\ main_pc' = "init_inited"
    /\ ev' = InitEvent(2)
    /\ UNCHANGED <<curr, next, inited, idx, add_idx, global_ptr, primask, icsr,
                   frames, track, hist>>

(* line 152 *)
init_inited ==
    /\ Runs(MAIN)
    /\ main_pc = "init_inited"
    /\ inited' = TRUE
    /\ main_pc' = "init_tick"
    /\ ev' = InitEvent(3)
    /\ stack' = << >>
    /\ UNCHANGED <<curr, next, idx, add_idx, threads, global_ptr, primask, icsr,
                   frames, track, hist>>

(* line 153 *)
init_tick ==
    /\ Runs(MAIN)
    /\ main_pc = "init_tick"
    /\ SysTickBody
    /\ main_pc' = "wfe"
    /\ UNCHANGED frames

----------------------------------------------------------------------------
(* Specifications *)

Callers == (1 .. (THREADS_LEN - 1)) \cup {MAIN}

(* Spec: every interleaving of the SysTick interrupt with the API calls of *)
(* main and of at most MaxUser user threads, created with the default      *)
(* configuration or as privileged threads of priority MaxPrio.             *)
Next ==
    \/ \E c \in Callers, n \in StackLens :
          add_idx <= MaxUser /\ create_thread(c, n)
    \/ \E c \in Callers, n \in StackLens :
          add_idx <= MaxUser /\ create_thread_with_config(c, n, HandlerFn, MaxPrio, TRUE)
    \/ \E c \in Callers, k \in 0 .. MaxSleep : sleep(c, k)
    \/ \E c \in Callers, k \in 0 .. MaxSleep : sleep_reordered(c, k)
    \/ \E c \in Callers : sleep_store(c)
    \/ \E c \in Callers : sleep_tick(c)
    \/ init_ptr
    \/ init_tcb
    \/ init_inited
    \/ init_tick
    \/ \E c \in Callers : tick(c)
    \/ SysTick
    \/ PendSV

Spec == InitState /\ [][Next]_vars

(* SpecLive: Spec with the create calls that the privilege check rejects    *)
(* made at every table size, the SysTick interrupt taken again and again   *)
(* while interrupts are not masked, a pended PendSV taken, and a sleep     *)
(* call that is on the CPU running on to its end.                          *)
NextLive ==
    \/ \E c \in Callers, n \in StackLens :
          /\ add_idx <= MaxUser \/ NoCreatePrivilege(inited, threads, idx)
          /\ create_thread(c, n)
    \/ \E c \in Callers, n \in StackLens :
          add_idx <= MaxUser /\ create_thread_with_config(c, n, HandlerFn, MaxPrio, TRUE)
    \/ \E c \in Callers, k \in 0 .. MaxSleep : sleep(c, k)
    \/ \E c \in Callers, k \in 0 .. MaxSleep : sleep_reordered(c, k)
    \/ \E c \in Callers : sleep_store(c)
    \/ \E c \in Callers : sleep_tick(c)
    \/ init_ptr
    \/ init_tcb
    \/ init_inited
    \/ init_tick
    \/ \E c \in Callers : tick(c)
    \/ SysTick
    \/ PendSV

SpecLive ==
    /\ InitState
    /\ [][NextLive]_vars
    /\ WF_vars(SysTick)
    /\ WF_vars(PendSV)
    /\ WF_vars(\E c \in Callers : sleep_store(c))
    /\ WF_vars(\E c \in Callers : sleep_tick(c))

(* SpecTrack: the interleavings of Spec for threads of the default         *)
(* configuration, with sleeps of up to MaxSleep + 1 ticks and the history  *)
(* of the sleep calls recorded.                                            *)
NextTrack ==
    \/ \E c \in Callers, n \in StackLens :
          add_idx <= MaxUser /\ create_thread(c, n)
    \/ \E c \in Callers, k \in 0 .. (MaxSleep + 1) : sleep(c, k)
    \/ \E c \in Callers, k \in 0 .. (MaxSleep + 1) : sleep_reordered(c, k)
    \/ \E c \in Callers : sleep_store(c)
    \/ \E c \in Callers : sleep_tick(c)
    \/ init_ptr
    \/ init_tcb
    \/ init_inited
    \/ init_tick
    \/ \E c \in Callers : tick(c)
    \/ SysTick
    \/ PendSV

SpecTrack == InitTrack /\ [][NextTrack]_vars

(* SpecSelect: main creates up to MaxTable threads of priority 0 or        *)
(* MaxPrio and calls init; the threads sleep for 0 or MaxSleep ticks and   *)
(* yield, under every interleaving of the SysTick interrupt with their     *)
(* steps.  The events of the scheduler are recorded.                       *)
NextSelect ==
    \/ \E p \in {0, MaxPrio} :
          /\ add_idx <= MaxTable
          /\ create_thread_with_config(MAIN, MIN_STACK, HandlerFn, p, FALSE)
    \/ \E c \in Callers, k \in {0, MaxSleep} : sleep(c, k)
    \/ \E c \in Callers, k \in {0, MaxSleep} : sleep_reordered(c, k)
    \/ \E c \in Callers : sleep_store(c)
    \/ \E c \in Callers : sleep_tick(c)
    \/ init_ptr
    \/ init_tcb
    \/ init_inited
    \/ init_tick
    \/ \E c \in Callers : tick(c)
    \/ SysTick
    \/ PendSV

SpecSelect == InitWatch /\ [][NextSelect]_vars

(* SpecAlt: the interleavings of SpecSelect for threads of every priority  *)
(* that loop 'work, then sleep(1)'.                                        *)
NextAlt ==
    \/ \E p \in Priorities :
          /\ add_idx <= MaxTable
          /\ create_thread_with_config(MAIN, MIN_STACK, HandlerFn, p, FALSE)
    \/ \E c \in Callers : sleep(c, 1)
    \/ \E c \in Callers : sleep_reordered(c, 1)
    \/ \E c \in Callers : sleep_store(c)
    \/ \E c \in Callers : sleep_tick(c)
    \/ init_ptr
    \/ init_tcb
    \/ init_inited
    \/ init_tick
    \/ \E c \in Callers : tick(c)
    \/ SysTick
    \/ PendSV

SpecAlt == InitWatch /\ [][NextAlt]_vars

(* SpecFrame: main creates two threads on stacks of MIN_STACK - 1 up to     *)
(* MIN_STACK + MaxExtra words, with every entry address of Handlers,       *)
(* every priority and both privilege settings.                             *)
NextFrame ==
    \E n \in FrameLens, f \in Handlers, p \in Priorities, v \in BOOLEAN :
        add_idx <= 2 /\ create_thread_with_config(MAIN, n, f, p, v)

SpecFrame == InitState /\ [][NextFrame]_vars

(* SpecCap: the table is filled to its capacity.  The first and the last   *)
(* CapVary user slots are created with every configuration, the slots in   *)
(* between with the default one; init may be called at any fill level and  *)
(* the running thread goes on calling create.                              *)
CapVaried(a) == a <= CapVary \/ a >= THREADS_LEN - CapVary

CapPriorities(a) == IF CapVaried(a) THEN Priorities ELSE {0}

CapPrivileged(a) == IF CapVaried(a) THEN BOOLEAN ELSE {FALSE}

NextCap ==
    \/ \E c \in Callers, n \in StackLens,
          p \in CapPriorities(add_idx), v \in CapPrivileged(add_idx) :
          create_thread_with_config(c, n, HandlerFn, p, v)
    \/ init_ptr
    \/ init_tcb
    \/ init_inited
    \/ init_tick
    \/ \E c \in Callers : tick(c)
    \/ SysTick
    \/ PendSV

SpecCap == InitState /\ [][NextCap]_vars

----------------------------------------------------------------------------
(* Properties *)

Users == {i \in Slots : i >= 1 /\ i < add_idx}

Runnable == {i \in Users : threads[i].status # Sleeping}

Prio(i) == threads[i].priority

(* The step that led to the state was a tick that invoked the scheduler:   *)
(* threads is the table after its sleep-counter update, idx its result.    *)
SchedulerRan == ev.op = "tick" /\ ev.sched

(* C1: when the scheduler runs and some user slot is non-sleeping after    *)
(* the update, the slot it returns is a non-sleeping user slot of maximal  *)
(* priority among the non-sleeping user slots.                             *)
C1_MaxPriority ==
    (SchedulerRan /\ Runnable # {}) =>
        /\ idx \in Runnable
        /\ \A j \in Runnable : Prio(idx) >= Prio(j)

C1_Witness ==
    /\ SchedulerRan
    /\ \E j \in Runnable : Prio(j) < Prio(idx)
    /\ \E k \in Users \ Runnable : Prio(k) >= Prio(idx)

C4_IdleOnlyWhenNoneRunnable ==
    SchedulerRan => (idx = 0 <=> Runnable = {})

C4_Witness ==
    /\ SchedulerRan
    /\ idx = 0
    /\ Users # {}
    /\ threads[0].priority = IDLE_PRIORITY
    /\ \A i \in Users : Prio(i) < IDLE_PRIORITY

(* C3: a user thread that called sleep(n) is not selected by a scheduling  *)
(* decision before the scheduler has been invoked n times since the call:  *)
(* the invocation that selects it is at least the n-th, under every        *)
(* interleaving of the SysTick interrupt with the steps of sleep.          *)
C3_SleepLastsNTicks ==
    (SchedulerRan /\ idx \in DOMAIN hist) => hist[idx].invs >= hist[idx].req

(* C5: add_idx never exceeds 32, and a create call entered with            *)
(* add_idx = 32 returns Err(TooManyThreads) and leaves add_idx and every   *)
(* TCB unchanged.                                                          *)
C5_Capacity ==
    /\ [](add_idx <= THREADS_LEN)
    /\ [][(ev'.op = "create" /\ add_idx = THREADS_LEN) =>
             (ev'.res = ERR_TOO_MANY_THREADS /\ UNCHANGED table)]_vars

C5_Witness ==
    /\ ev.op = "create"
    /\ ev.res = ERR_TOO_MANY_THREADS
    /\ add_idx = THREADS_LEN
    /\ inited
    /\ curr = AddrOf(THREADS_LEN - 1)

Unprivileged == inited /\ threads[idx].privileged = 0

(* C6 as stated: after init a create call made while threads[idx] is       *)
(* unprivileged returns NoCreatePrivilege and leaves add_idx and the TCBs  *)
(* unchanged; before init no create call returns NoCreatePrivilege.        *)
C6_NoCreatePrivilege ==
    [][ev'.op = "create" =>
          /\ Unprivileged => (ev'.res = ERR_NO_CREATE_PRIV /\ UNCHANGED table)
          /\ ~inited => ev'.res # ERR_NO_CREATE_PRIV]_vars

(* C6 amended: such a call fails and leaves add_idx and the TCBs           *)
(* unchanged; it returns NoCreatePrivilege unless the table is full        *)
(* (add_idx = 32), when it returns TooManyThreads; before init no create   *)
(* call returns NoCreatePrivilege.                                         *)
C6_NoCreatePrivilegeUnlessFull ==
    [][ev'.op = "create" =>
          /\ Unprivileged =>
                /\ UNCHANGED table
                /\ ev'.res = IF add_idx < THREADS_LEN THEN ERR_NO_CREATE_PRIV
                             ELSE ERR_TOO_MANY_THREADS
          /\ ~inited => ev'.res # ERR_NO_CREATE_PRIV]_vars

C6_Witness ==
    /\ ev.op = "create"
    /\ ev.res = ERR_NO_CREATE_PRIV
    /\ inited
    /\ idx > 0
    /\ threads[idx].privileged = 0
    /\ add_idx < THREADS_LEN

ShortStack == Len(stack') < MIN_STACK

StackUntouched == stack' = FreshStack(Len(stack'))

C8_InterruptsEnabledOnReturn == ev.op = "create" => ~primask

(* C9: slot 0 always has status Idle and sleep_ticks 0, and a sleep call   *)
(* made while idx = 0 changes no scheduler state and does not go on to     *)
(* call tick.                                                              *)
C9_SleepFromIdleIsNoop ==
    /\ [](threads[0].status = Idle /\ threads[0].sleep_ticks = 0)
    /\ [][(ev'.op = "sleep" /\ idx = 0) =>
             UNCHANGED <<curr, next, inited, idx, add_idx, threads,
                         global_ptr, primask, icsr, main_pc, frames>>]_vars

C9_Witness ==
    /\ ev.op = "sleep"
    /\ ev.res = 0
    /\ idx = 0
    /\ add_idx > 1
    /\ ~inited

(* H is not sleeping: its sleep, if it has called sleep, has expired. *)
Expired(h) == threads[h].status = Idle

NoRival(h) ==
    \A m \in Runnable \ {h} : Prio(m) < Prio(h) \/ (Prio(m) = Prio(h) /\ m < h)

(* C10 as stated: once the sleep of a thread H has expired, every          *)
(* scheduling decision made while H has not called sleep again selects H,  *)
(* for every thread L of strictly lower priority.                          *)
C10_HigherAlwaysSelected ==
    SchedulerRan =>
        \A h \in Users, l \in Users :
            (Prio(h) > Prio(l) /\ Expired(h)) => idx = h

(* C10 amended: once the sleep of H has expired, no scheduling decision    *)
(* made while H has not called sleep again selects a thread L of strictly  *)
(* lower priority, and it selects H when every other non-sleeping user     *)
(* thread has a lower priority, or the same priority and a lower slot.     *)
C10_LowerNeverSelected ==
    SchedulerRan =>
        \A h \in Users, l \in Users :
            (Prio(h) > Prio(l) /\ Expired(h)) =>
                (idx # l /\ (NoRival(h) => idx = h))

C10_Witness ==
    /\ SchedulerRan
    /\ \E h \in Users, l \in Users :
          /\ Prio(h) > Prio(l)
          /\ h \in ev.woke
          /\ ev.from = l
          /\ l \in Runnable
          /\ idx = h
          /\ curr = AddrOf(l)

----------------------------------------------------------------------------
(* Two threads of equal priority, A in slot 1 and B in slot 2. *)

TwoEqual == inited /\ add_idx = 3 /\ Prio(1) = Prio(2)

(* The step is the tick of line 296, made by a sleep call. *)
SleepTickStep == ev'.op = "tick" /\ frames' # frames

(* The step is the first scheduling decision, made by init. *)
FirstDecision == ev'.op = "tick" /\ ev'.sched /\ curr = 0

(* C11 as stated: with two user threads of equal priority that loop        *)
(* 'work, then sleep(1)', the first thread selected after init is A        *)
(* (slot 1), and the tick of every sleep call hands over to the other      *)
(* thread: A, B, A, B, ...                                                 *)
C11_ABAB ==
    [][TwoEqual =>
          /\ FirstDecision => idx' = 1
          /\ SleepTickStep => (idx \in {1, 2} /\ idx' = 3 - idx)
          /\ (ev'.op = "tick" /\ ev'.sched) => idx' \in {1, 2}]_vars

----------------------------------------------------------------------------
(* The fields of ThreadsState (lines 72-81). *)
global == <<curr, next, inited, idx, add_idx, threads>>

(* The step runs between cpsid and cpsie: SysTick (lines 245-264),         *)
(* create_thread_with_config (from line 212) and the first step of init    *)
(* (lines 134-137) mask interrupts before their first write; any other     *)
(* step is masked when the mask is already set.                            *)
MaskedStep ==
    \/ primask
    \/ ev'.op \in {"tick", "create"}
    \/ ev' = InitEvent(1)

(* C12: every step of init, create_thread*, sleep and tick that writes a   *)
(* field of the global scheduler state runs with interrupts masked.        *)
C12_WritesMasked ==
    [][(global' # global /\ ev'.op \in {"init", "create", "sleep", "tick"})
          => MaskedStep]_vars

----------------------------------------------------------------------------
(* Some non-sleeping user thread other than i has a higher priority. *)
HigherRunnable(i) == \E m \in Runnable \ {i} : Prio(m) > Prio(i)

(* Between scheduler invocations the TCB of a Sleeping user thread is     *)
(* written by nothing but a store of that thread's own sleep call.         *)
Quiet ==
    \A i \in Users :
        (threads[i].status = Sleeping /\ threads'[i] # threads[i]) =>
            \/ ev'.op = "tick" /\ ev'.sched
            \/ ev'.op = "sleep" /\ idx = i /\ Runs(i) /\ At(i) # "run"

(* What one scheduler invocation does to the user thread i that is         *)
(* Sleeping: with sleep_ticks > 0 it decrements by one, keeps i Sleeping   *)
(* and does not select i; with sleep_ticks = 0 it sets i to Idle, leaves   *)
(* sleep_ticks alone, and selects i when the condition sel holds after it. *)
SleepStep(i, sel) ==
    IF threads[i].sleep_ticks > 0
    THEN /\ threads'[i] = [threads[i] EXCEPT !.sleep_ticks = @ - 1]
         /\ idx' # i
    ELSE /\ threads'[i] = [threads[i] EXCEPT !.status = Idle]
         /\ sel => idx' = i

----------------------------------------------------------------------------
(* C14: a tick entered after init with curr # next does not invoke the     *)
(* scheduler, leaves idx, next and every TCB unchanged and leaves PendSV   *)
(* pended; a tick entered after init with curr = next invokes it; and idx  *)
(* and next are written by no step other than such a tick.                 *)
C14_NoRescheduleWhilePending ==
    /\ [][(ev'.op = "tick" /\ inited) =>
             IF curr # next
             THEN ~ev'.sched /\ UNCHANGED <<idx, next, threads>> /\ PendSVPending'
             ELSE ev'.sched /\ next' = AddrOf(idx')]_vars
    /\ [][(idx' # idx \/ next' # next) =>
             (ev'.op = "tick" /\ inited /\ curr = next)]_vars

C14_Witness ==
    /\ ev.op = "tick"
    /\ ~ev.sched
    /\ inited
    /\ curr # next
    /\ PendSVPending
    /\ \E i \in Users : threads[i].status = Sleeping /\ threads[i].sleep_ticks = 0

----------------------------------------------------------------------------
(* The bits of an ICSR value other than bit 28. *)
OtherBits(v) == <<v \div (2 * PENDSVSET), v % PENDSVSET>>

(* C15: a tick after init pends PendSV exactly when curr # next after its  *)
(* rescheduling step: it then sets bit 28 of ICSR and keeps every other    *)
(* bit; when curr = next it does not write ICSR.                           *)
C15_PendSVIffSwitch ==
    [][(ev'.op = "tick" /\ inited) =>
          IF curr # next'
          THEN PendSVPending' /\ OtherBits(icsr') = OtherBits(icsr)
          ELSE icsr' = icsr]_vars

C15_Witness ==
    /\ ev.op = "tick"
    /\ ev.sched
    /\ inited
    /\ curr # next
    /\ curr # 0
    /\ PendSVPending
    /\ OtherBits(icsr) # <<0, 0>>

----------------------------------------------------------------------------
(* C16: a tick that runs before init has set inited changes no field of    *)
(* the scheduler state and does not write ICSR, and it returns with        *)
(* interrupts enabled.                                                     *)
C16_TickBeforeInitIsNoop ==
    [][(ev'.op = "tick" /\ ~inited) =>
          (UNCHANGED <<global, icsr>> /\ ~primask')]_vars

(* A tick taken between two create_thread calls made before init. *)
C16_Witness ==
    /\ ev.op = "tick"
    /\ ~inited
    /\ add_idx = 2
    /\ main_pc = "boot"
    /\ ~PendSVPending

----------------------------------------------------------------------------
(* Code of a user thread is executing: the context on the CPU is a slot    *)
(* and no exception is about to be taken.                                  *)
ThreadCode == inited /\ curr # 0 /\ ~PendSVPending

(* C17: every tick that reschedules leaves idx in [0, add_idx) and next at *)
(* the address of threads[idx]; whenever thread code executes,             *)
(* curr = next = address of threads[idx] (get_thread_id, which returns     *)
(* idx, names the running thread), and a store of sleep changes no slot    *)
(* other than that of the running thread.                                  *)
C17_IdxNamesRunningThread ==
    /\ [](idx >= 0 /\ idx < add_idx)
    /\ [](ThreadCode => (curr = next /\ next = AddrOf(idx)))
    /\ [][(ev'.op = "tick" /\ ev'.sched) =>
             (idx' >= 0 /\ idx' < add_idx' /\ next' = AddrOf(idx'))]_vars
    /\ [][(ev'.op = "sleep" /\ inited) =>
             \A i \in Slots \ {SlotOf(curr)} : threads'[i] = threads[i]]_vars

(* Thread 2 is between the two stores of its sleep call. *)
C17_Witness ==
    /\ ThreadCode
    /\ ev.op = "sleep"
    /\ ev.res = 1
    /\ idx = 2
    /\ curr = AddrOf(2)
    /\ threads[2].status = Sleeping

----------------------------------------------------------------------------
(* C18: add_idx stays in [1, 32] and never decreases; a successful create  *)
(* writes slot add_idx only and then adds one to add_idx; a failed create  *)
(* leaves add_idx and every slot unchanged; no other step changes add_idx. *)
C18_AppendOnly ==
    /\ [](add_idx >= 1 /\ add_idx <= THREADS_LEN)
    /\ [][add_idx' >= add_idx]_vars
    /\ [][add_idx' # add_idx => ev'.op = "create"]_vars
    /\ [][ev'.op = "create" =>
             IF ev'.res = OK
             THEN /\ add_idx' = add_idx + 1
                  /\ \A i \in Slots \ {add_idx} : threads'[i] = threads[i]
                  /\ threads'[add_idx] # ZeroTcb
             ELSE UNCHANGED table]_vars

(* The last slot has been filled by a thread, after init. *)
C18_Witness ==
    /\ ev.op = "create"
    /\ ev.res = OK
    /\ add_idx = THREADS_LEN
    /\ inited
    /\ curr # 0
    /\ threads[THREADS_LEN - 1] # ZeroTcb

----------------------------------------------------------------------------
(* C19: after init, with SysTick interrupts occurring again and again and  *)
(* pended PendSV switches taken, every user thread that is Sleeping is     *)
(* eventually Idle again, whatever the other threads do.                   *)
C19_SleepersWake ==
    \A i \in 1 .. MaxUser :
        (inited /\ i < add_idx /\ threads[i].status = Sleeping)
            ~> (threads[i].status = Idle)

----------------------------------------------------------------------------
(* The TCB create_tcb returns for the stack of n words at address base. *)
ExpectedTcb(base, n, p, v) ==
    [sp |-> base + 4 * (n - 16), priority |-> p,
     privileged |-> IF v THEN 1 ELSE 0, status |-> Idle, sleep_ticks |-> 0]

(* C20: for every stack of N >= 32 words and every entry address f the     *)
(* frame builder leaves 0x01000000 in word N-1, f in word N-2, 0xFFFFFFFD  *)
(* in word N-3, writes no word other than the top 16 and leaves words      *)
(* 0 .. N-17 unchanged; the TCB has sp = address of word N-16, status      *)
(* Idle, sleep_ticks 0, the given priority, and privileged 1 for true and  *)
(* 0 for false.  (Word k of the stack is stack[k + 1].)                    *)
C20_FrameBuilder ==
    [][\A n \in FrameLens, f \in Handlers, p \in Priorities, v \in BOOLEAN :
          (n >= MIN_STACK /\ create_thread_with_config(MAIN, n, f, p, v)) =>
              /\ ev'.res = OK
              /\ Len(stack') = n
              /\ stack'[n] = <<256, 0>>
              /\ stack'[n - 1] = f
              /\ stack'[n - 2] = <<65535, 65533>>
              /\ \A i \in 1 .. (n - 16) : stack'[i] = FreshStack(n)[i]
              /\ \A i \in (n - 15) .. n : stack'[i] # FreshStack(n)[i]
              /\ threads'[add_idx] = ExpectedTcb(StackBase(add_idx), n, p, v)]_vars

C20_Witness ==
    /\ ev.op = "create"
    /\ ev.res = OK
    /\ Len(stack) > MIN_STACK
    /\ stack[Len(stack) - 1] = HighFn
    /\ stack[Len(stack)] = <<256, 0>>
    /\ add_idx = 3
    /\ threads[2].privileged = 1
    /\ threads[2].sp = StackBase(2) + 4 * (Len(stack) - 16)

====
